---- MODULE Spec2Model ----
(***************************************************************************)
(* Model of the incremental synchronisation engine of clinic-data-sync:    *)
(* app/main.py (process_patient, process_and_register_patient, main) with  *)
(* the clinical source (app/db/extract.py), the document renderer          *)
(* (app/reports/patient_report.py) and the registry file                   *)
(* known_patients.json as its environment.                                 *)
(*                                                                         *)
(* Dates are day numbers.  str(date) and strptime(.., "%Y-%m-%d") are the   *)
(* fixed-width ISO form, whose string order is the calendar order, so a    *)
(* stored date string is represented by its day number.  An optional value *)
(* (a missing key, or None) is the empty tuple, a present value v is <<v>>. *)
(***************************************************************************)
EXTENDS Integers, Sequences, FiniteSets, TLC

\* ------------------------------------------------------------------ bounds
MaxDate    == 2     \* calendar days a run can be asked to process: 1..MaxDate
MaxData    == 2     \* versions of a patient's tracked (non-appointment) fields
MaxAppt    == 2     \* upcoming-appointment days the source can report
MaxRuns    == 2     \* invocations of main in one behaviour
MaxChanges == 1     \* changes of the source or of the documents in one behaviour

Patients == {"P1", "P2"}
Dates    == 1..MaxDate

None    == <<>>
Some(v) == <<v>>

Max(S) == CHOOSE x \in S : \A y \in S : y <= x

\* ------------------------------------------------------- clinical source
\* What the queries of app/db/extract.py return for one patient: whether
\* SQL_MAIN_QUERY finds a row, the content of the tracked fields, and the
\* WORK_DATE_STR days of the future appointments.
NoPatient  == [exists |-> FALSE, data |-> 0, appts |-> {}]
SourceVals == {NoPatient} \cup
              [exists : {TRUE}, data : 1..MaxData, appts : SUBSET (1..MaxAppt)]

SourceMoves(s) ==
    IF ~s.exists
    THEN {[exists |-> TRUE, data |-> 1, appts |-> {}]}
    ELSE {NoPatient}
         \cup {[s EXCEPT !.data = d] : d \in (1..MaxData) \ {s.data}}
         \cup {[s EXCEPT !.appts = a] : a \in (SUBSET (1..MaxAppt)) \ {s.appts}}

\* calculate_patient_hash: the digest of the canonical serialisation of the
\* tracked fields; "Следующий визит" (the future appointments) is one of
\* them.  The digest is represented by the content it is computed from.
calculate_patient_hash(snap) == [data |-> snap.data, appts |-> snap.appts]

\* process_patient, lines 113-116: the latest parseable appointment day.
latest_appt_of(appts) == IF appts = {} THEN None ELSE Some(Max(appts))

\* ------------------------------------------------------------- registry
EmptyEntry == [last_appointment_date |-> None, data_hash |-> None,
               last_checked |-> None, last_updated |-> None,
               processed_on |-> None]

\* the entry main inserts for an identifier it has not seen (lines 238-242)
NewEntry(target_date) == [EmptyEntry EXCEPT !.last_checked = Some(target_date)]

\* known.get(pcode, {}).get(field)
Get(k, pcode, field) == IF pcode \in DOMAIN k THEN k[pcode][field] ELSE None

\* the registry rebuilt around the one entry
Put_alone(k, pcode, entry) == [q \in {pcode} |-> entry]

\* known[pcode] = entry
Put(k, pcode, entry) ==
    [q \in (DOMAIN k) \cup {pcode} |-> IF q = pcode THEN entry ELSE k[q]]

\* known.setdefault(pcode, {})
SetDefault(k, pcode) == IF pcode \in DOMAIN k THEN k ELSE Put(k, pcode, EmptyEntry)


\* list(known.items()): the identifiers of the registry in the order of the
\* dict, which is fixed for a given registry
KeyOrder(k) ==
    CHOOSE s \in [1..Cardinality(DOMAIN k) -> DOMAIN k] :
        \A i, j \in DOMAIN s : i # j => s[i] # s[j]

\* known_patients.json (DATA_FILE): absent, or holding the JSON text of a
\* mapping, no text at all, text that is not JSON, or bytes that are not UTF-8
AbsentFile   == [kind |-> "absent", data |-> <<>>]
JsonFile(m)  == [kind |-> "json", data |-> m]
DamagedFiles == {[kind |-> c, data |-> <<>>] : c \in {"empty", "garbage", "bad_utf8"}}

\* load_known_patients, lines 86-94: what it returns, or that it raises.
\* read_text raises UnicodeDecodeError on bytes that are not UTF-8, and only
\* json.JSONDecodeError is caught.
load_known_patients(file) ==
    IF file.kind = "absent" THEN [raised |-> FALSE, data |-> <<>>]
    ELSE IF file.kind = "bad_utf8" THEN [raised |-> TRUE, data |-> <<>>]
    ELSE IF file.kind = "empty" THEN [raised |-> FALSE, data |-> <<>>]
    ELSE IF file.kind = "garbage" THEN [raised |-> FALSE, data |-> <<>>]
    ELSE [raised |-> FALSE, data |-> file.data]

\* save_known_patients, lines 97-98: the file after a write that completes
save_known_patients(data) == JsonFile(data)

\* Path.write_text opens the file with mode "w", which truncates it, and then
\* writes: the file after a write that stops part-way
InterruptedWrites == {[kind |-> c, data |-> <<>>] : c \in {"empty", "garbage"}}

\* ------------------------------------------------------- process_patient
\* the decision without the test for the document file (line 125)
need_regen_ignoring_file(k, files, pcode, current_hash, latest_appt) ==
    LET last_saved_appt == Get(k, pcode, "last_appointment_date")
        last_saved_hash == Get(k, pcode, "data_hash")
    IN  IF Some(current_hash) # last_saved_hash THEN TRUE
        ELSE IF last_saved_hash = None THEN TRUE
        ELSE \/ last_saved_appt = None
             \/ /\ latest_appt # None
                /\ last_saved_appt # None
                /\ latest_appt[1] > last_saved_appt[1]

\* lines 124-132: the regeneration decision
need_regen(k, files, pcode, current_hash, latest_appt) ==
    LET last_saved_appt == Get(k, pcode, "last_appointment_date")
        last_saved_hash == Get(k, pcode, "data_hash")
    IN  IF pcode \notin files THEN TRUE
        ELSE IF Some(current_hash) # last_saved_hash THEN TRUE
        ELSE IF last_saved_hash = None THEN TRUE
        ELSE \/ last_saved_appt = None
             \/ /\ latest_appt # None
                /\ last_saved_appt # None
                /\ latest_appt[1] > last_saved_appt[1]

\* the entry with the target date written as last_updated
RegeneratedEntry_updated_on_target(current_hash, latest_appt, target_date, today) ==
    [last_appointment_date |-> latest_appt,
     data_hash             |-> Some(current_hash),
     last_checked          |-> Some(target_date),
     last_updated          |-> Some(target_date),
     processed_on          |-> Some(target_date)]

\* lines 136-142: the entry written after a successful render
RegeneratedEntry(current_hash, latest_appt, target_date, today) ==
    [last_appointment_date |-> latest_appt,
     data_hash             |-> Some(current_hash),
     last_checked          |-> Some(target_date),
     last_updated          |-> Some(today),
     processed_on          |-> Some(target_date)]

\* the skip path also stamping last_updated
SkippedEntry_stamping_updated(k, pcode, target_date) ==
    [SetDefault(k, pcode) EXCEPT ![pcode].last_checked = Some(target_date),
                                 ![pcode].last_updated = Some(target_date),
                                 ![pcode].processed_on = Some(target_date)]

\* lines 148-150: the skip path
SkippedEntry(k, pcode, target_date) ==
    [SetDefault(k, pcode) EXCEPT ![pcode].last_checked = Some(target_date),
                                 ![pcode].processed_on = Some(target_date)]

\* the except branch replacing the entry instead of updating it
FailedEntry_replacing(k, pcode, target_date) ==
    Put(k, pcode, [EmptyEntry EXCEPT !.processed_on = Some(target_date)])

\* lines 156-158: the except branch
FailedEntry(k, pcode, target_date) ==
    [SetDefault(k, pcode) EXCEPT ![pcode].processed_on = Some(target_date)]

\* process_patient(conn, pcode, known, target_date, is_new), lines 101-159.
\* snap is what the clinical source holds for pcode; fail tells which call
\* raises: "fetch" (collect_patient_data, calculate_patient_hash or
\* fetch_future_appointments), "render" (build_patient_report) or "none".
\* The result is the registry and the document files after the call, and
\* what the call did.  is_new only selects the text of the log line.
process_patient(k, files, pcode, target_date, is_new, snap, fail, today) ==
    LET current_hash == calculate_patient_hash(snap)
        latest_appt  == latest_appt_of(snap.appts)
        regen        == need_regen(k, files, pcode, current_hash, latest_appt)
    IN  IF fail = "fetch"
        THEN [known |-> FailedEntry(k, pcode, target_date), files |-> files,
              outcome |-> "error", rendered |-> FALSE]
        ELSE IF regen /\ fail = "render"
        THEN [known |-> FailedEntry(k, pcode, target_date), files |-> files,
              outcome |-> "error", rendered |-> TRUE]
        ELSE IF regen
        THEN [known |-> Put(k, pcode, RegeneratedEntry(current_hash, latest_appt,
                                                       target_date, today)),
              files |-> files \cup {pcode},
              outcome |-> "regen", rendered |-> TRUE]
        ELSE [known |-> SkippedEntry(k, pcode, target_date), files |-> files,
              outcome |-> "skip", rendered |-> FALSE]

\* the test of line 279 passing over a patient that was never checked
daily_due_when_checked(last_checked, tdate) ==
    last_checked # None /\ last_checked[1] < tdate

\* main, line 279: a reported patient is due unless checked on or after the date
daily_due(last_checked, tdate) == last_checked = None \/ last_checked[1] < tdate

\* the identifiers in the order sorted() gives them
PcodeOrder == <<"P1", "P2">>

\* the accumulator handed over as it is
sorted_unique_unsorted(acc) == acc

\* main, line 291: sorted(set(all_processed_pcodes))
sorted_unique(acc) ==
    SelectSeq(PcodeOrder, LAMBDA p : \E i \in DOMAIN acc : acc[i] = p)

\* the export and the upload run unconditionally
has_processed_always(acc) == TRUE

\* main, lines 290 and 304: `if all_processed_pcodes`
has_processed(acc) == acc # <<>>

\* the accumulator overwritten instead of extended
Register_overwriting(acc, pcode) == <<pcode>>

\* process_and_register_patient, lines 162-165: the accumulator part
Register(acc, pcode) ==
    IF \E i \in DOMAIN acc : acc[i] = pcode THEN acc ELSE Append(acc, pcode)


\* ------------------------------------------------- the management report
\* append_to_management_report (app/export/csv_exporter.py).  A text is the
\* sequence of its characters; a label of the sheet is one symbol.  A row of
\* the sheet is its cells: a is the last row of the range of the index
\* formula in column A (0: no formula), b the text of column B (the empty
\* text: no value), c the values of the columns C.. of a data row (0: none),
\* rng the data range <<first, last>> the formula in column C of a breakdown
\* or summary row refers to (<<>>: no formula).  wb.save and load_workbook
\* keep the rows and their cells.
MaxBatch == 2     \* rows of one incoming batch
MaxValue == 2     \* versions of the field values of an incoming row

Blank == " "

RECURSIVE lstrip(_)
lstrip(t) == IF t # <<>> /\ Head(t) = Blank THEN lstrip(Tail(t)) ELSE t

RECURSIVE rstrip(_)
rstrip(t) ==
    IF t # <<>> /\ t[Len(t)] = Blank THEN rstrip(SubSeq(t, 1, Len(t) - 1)) ELSE t

\* str.strip()
strip(t) == rstrip(lstrip(t))

Min(S) == CHOOSE x \in S : \A y \in S : x <= y

\* the labels of the two breakdown blocks (lines 488-493 and 518-524) and of
\* the summary block (lines 579-603)
BlockType1 == <<"complex patient", "not a complex patient",
                "needs anaesthesia", "status not set">>
BlockType2 == <<"sanitised", "refused treatment", "ready", "thinking",
                "status not set">>
SummaryTitle == "totals for the current filter"
SummaryMetrics == <<"patients", "booked again", "conversion", "paid total",
                    "average cost">>

EmptyCells == [a |-> 0, b |-> <<>>, c |-> 0, rng |-> <<>>]
HeaderCells == [EmptyCells EXCEPT !.b = <<"full name">>]
LabelCells(label, rng) == [EmptyCells EXCEPT !.b = <<label>>, !.rng = rng]

\* the report file: absent, or a workbook with its sheet and the rows
\* <<first, last>> of ws.auto_filter.ref
AbsentReport == [exists |-> FALSE, sheet |-> <<>>, filter |-> <<>>]

\* lines 326-336: the sheet of the file, or a new sheet with the header row
open_sheet(report) == IF report.exists THEN report.sheet ELSE <<HeaderCells>>

\* line 341: val.startswith("комплексный пациент") on the text of column B
is_totals_label(b) == strip(b) # <<>> /\ Head(strip(b)) = BlockType1[1]

\* the sheet left as it was loaded
strip_totals_keeping(sheet) == sheet

\* lines 339-343: everything from the first breakdown label on is deleted
strip_totals(sheet) ==
    LET hits == {i \in 1..Len(sheet) : is_totals_label(sheet[i].b)}
    IN  IF hits = {} THEN sheet ELSE SubSeq(sheet, 1, Min(hits) - 1)

\* line 345: every cell of the row is None or blank text
is_empty(cells) ==
    cells.a = 0 /\ strip(cells.b) = <<>> /\ cells.c = 0 /\ cells.rng = <<>>

\* lines 344-349: the blank rows at the end are deleted, never the first row
RECURSIVE strip_blank_tail(_)
strip_blank_tail(sheet) ==
    IF Len(sheet) > 1 /\ is_empty(sheet[Len(sheet)])
    THEN strip_blank_tail(SubSeq(sheet, 1, Len(sheet) - 1))
    ELSE sheet

\* the search that finds nothing
find_row_missing(sheet, fio) == 0

\* lines 362-367: the first row from row 2 on whose column B is fio, or 0
find_row(sheet, fio) ==
    LET hits == {row \in 2..Len(sheet) : strip(sheet[row].b) = fio}
    IN  IF hits = {} THEN 0 ELSE Min(hits)

\* the index formula ending at the last row of the sheet
num_formula_to_last(sheet, row_idx) == Len(sheet)

\* line 382: =SUBTOTAL(3,$B$2:B{row_idx})
num_formula(sheet, row_idx) == row_idx

\* a new row put in front of the data rows
merge_row_in_front(sheet, r) ==
    LET fio == strip(r.name)
        existing_row == find_row(sheet, fio)
    IN  IF fio = <<>> THEN sheet
        ELSE IF existing_row # 0
        THEN [sheet EXCEPT ![existing_row] =
                 [a |-> num_formula(sheet, existing_row), b |-> fio,
                  c |-> r.value, rng |-> <<>>]]
        ELSE <<sheet[1]>>
             \o <<[a |-> num_formula(sheet, 2), b |-> fio,
                   c |-> r.value, rng |-> <<>>]>>
             \o Tail(sheet)

\* lines 357-409: one incoming row
merge_row(sheet, r) ==
    LET fio == strip(r.name)
        existing_row == find_row(sheet, fio)
        row_idx == IF existing_row # 0 THEN existing_row ELSE Len(sheet) + 1
        cells == [a |-> num_formula(sheet, row_idx), b |-> fio,
                  c |-> r.value, rng |-> <<>>]
    IN  IF fio = <<>> THEN sheet
        ELSE IF existing_row # 0
        THEN [sheet EXCEPT ![row_idx] = cells]
        ELSE Append(sheet, cells)

\* the loop passing over a name that is in the sheet already
RECURSIVE merge_rows_first_wins(_, _)
merge_rows_first_wins(sheet, batch) ==
    IF batch = <<>> THEN sheet
    ELSE merge_rows_first_wins(
             IF find_row(sheet, strip(Head(batch).name)) # 0 THEN sheet
             ELSE merge_row(sheet, Head(batch)),
             Tail(batch))

\* lines 356-409: the loop over the incoming rows
RECURSIVE merge_rows(_, _)
merge_rows(sheet, batch) ==
    IF batch = <<>> THEN sheet
    ELSE merge_rows(merge_row(sheet, Head(batch)), Tail(batch))

\* lines 466-472: the last data row as the code computes it
last_row_of(sheet) ==
    LET start_row == (Len(sheet) + 1) + 1
    IN  start_row - 2

\* lines 466-603: the separator row, the two breakdown blocks with a blank
\* row between them, a blank row and the summary block
write_totals(sheet) ==
    LET first_row == 2
        last_row  == last_row_of(sheet)
        rng       == <<first_row, last_row>>
    IN  sheet
        \o <<EmptyCells>>
        \o [i \in 1..Len(BlockType1) |-> LabelCells(BlockType1[i], rng)]
        \o <<EmptyCells>>
        \o [i \in 1..Len(BlockType2) |-> LabelCells(BlockType2[i], rng)]
        \o <<EmptyCells>>
        \o <<LabelCells(SummaryTitle, <<>>)>>
        \o [i \in 1..Len(SummaryMetrics) |->
               LabelCells(SummaryMetrics[i],
                          IF SummaryMetrics[i] = "conversion" THEN <<>> ELSE rng)]

\* append_to_management_report(path, rows), lines 322-611
append_to_management_report(report, batch) ==
    LET ws     == strip_blank_tail(strip_totals(open_sheet(report)))
        merged == merge_rows(ws, batch)
    IN  [exists |-> TRUE,
         sheet  |-> write_totals(merged),
         filter |-> <<1, last_row_of(merged)>>]

\* the rows a batch can hold: r.get("Название лида", "") and the other
\* fields; export_patients_to_csv returns before the merge when it has no
\* row (lines 245-247)
IncomingNames == {<<>>, <<"a">>, <<"a", Blank>>, <<"b">>}
IncomingRows  == [name : IncomingNames, value : 1..MaxValue]
Batches       == UNION {[1..n -> IncomingRows] : n \in 1..MaxBatch}

\* format_patient_data, formatting.py line 6: the stripped "ФИО" built from
\* LASTNAME, FIRSTNAME and MIDNAME of the patient's record
FullName(pcode) == IF pcode = "P1" THEN <<"a">> ELSE <<"b">>

\* the row left without its name
csv_row_unnamed(src, pcode) == [name |-> <<>>, value |-> src[pcode].data]

\* export_patients_to_csv, lines 240-241: the row of one identifier, from
\* the data collected at the time of the export; without a record in the
\* source info is None and "ФИО" is the empty text
csv_row(src, pcode) ==
    [name  |-> IF src[pcode].exists THEN FullName(pcode) ELSE <<>>,
     value |-> src[pcode].data]

\* lines 236-243: the rows of the identifiers whose collection did not raise
csv_rows(src, pcodes, collected) ==
    LET ok == SelectSeq(pcodes, LAMBDA p : p \in collected)
    IN  [i \in DOMAIN ok |-> csv_row(src, ok[i])]

\* ------------------------------------------------- the fingerprint in detail
\* calculate_patient_hash (app/main.py, lines 50-82) over format_patient_data
\* (app/utils/formatting.py) at the level of the fields.  A dict is the
\* sequence of its <<key, value>> pairs in insertion order.  A value is
\* [t, v]: its Python type and its text; the dash written by formatting.py
\* is the text "-".
Null       == [t |-> "null", v |-> ""]
Missing    == [t |-> "missing", v |-> ""]      \* the key is not in the dict
Str(s)     == [t |-> "str", v |-> s]
Num(n)     == [t |-> "num", v |-> n]
Decimal(n) == [t |-> "decimal", v |-> n]       \* decimal.Decimal, as fdb returns
DateVal(d) == [t |-> "date", v |-> d]          \* datetime.date
List(l)    == [t |-> "list", v |-> l]

dict_has(d, k) == \E i \in DOMAIN d : d[i][1] = k

\* d.get(k, default)
dict_get(d, k, default) ==
    IF dict_has(d, k)
    THEN d[CHOOSE i \in DOMAIN d : d[i][1] = k][2]
    ELSE default

\* `value or default`: None, "", 0 and Decimal(0) are false
or_else(value, default) ==
    IF \/ value.t = "null"
       \/ value.t = "str" /\ value.v = ""
       \/ value.t \in {"num", "decimal"} /\ value.v = "0"
    THEN default
    ELSE value

\* formatting.py, lines 5-33 and 92: the entries of the result that
\* calculate_patient_hash reads, and "Дата рождения"
format_patient_data(data) ==
    LET info == IF data.has_info THEN data.info ELSE <<>>
        bdate == dict_get(info, "BDATE", Null)
    IN  << <<"surname",     dict_get(info, "LASTNAME", Str(""))>>,
           <<"birth_date",  IF bdate.t = "date" THEN Str(bdate.v) ELSE Str("-")>>,
           <<"branch",      or_else(dict_get(info, "FILIAL_NAME", Null), Str("-"))>>,
           <<"referred",    or_else(dict_get(info, "REKLAMA", Null), Num("0"))>>,
           <<"next_visits", List(data.appts)>>,
           <<"paid",        IF data.paid = Missing THEN Num("0") ELSE data.paid>> >>

\* lines 57-79: key_fields, in the order of the dict display; "age" stands
\* for "Возраст пациента", a key format_patient_data does not set
key_fields(formatted) ==
    << <<"surname",    dict_get(formatted, "surname", Null)>>,
       <<"age",        dict_get(formatted, "age", Null)>>,
       <<"next_visit", dict_get(formatted, "next_visits", Null)>>,
       <<"paid",       dict_get(formatted, "paid", Null)>>,
       <<"branch",     dict_get(formatted, "branch", Null)>>,
       <<"referred",   dict_get(formatted, "referred", Null)>> >>

\* the keys in the order of sorted()
SortedKeys == <<"DOCTOR_NAME", "WORK_DATE_STR", "age", "branch",
                "next_visit", "paid", "referred", "surname">>

sort_keys(d) ==
    LET ks == SelectSeq(SortedKeys, LAMBDA k : dict_has(d, k))
    IN  [i \in 1..Len(ks) |-> <<ks[i], dict_get(d, ks[i], Null)>>]

\* json.dumps accepts None, str, int, float, bool, and lists and dicts of them
is_scalar(value) == value.t \in {"null", "str", "num"}

serializable(value) ==
    IF value.t = "list"
    THEN \A i \in DOMAIN value.v :
             \A j \in DOMAIN value.v[i] : is_scalar(value.v[i][j][2])
    ELSE is_scalar(value)

\* json.dumps without sort_keys
json_dumps_insertion_order(obj) ==
    IF \E i \in DOMAIN obj : ~serializable(obj[i][2])
    THEN [raised |-> TRUE, text |-> <<>>]
    ELSE [raised |-> FALSE, text |-> obj]

\* line 81: json.dumps(key_fields, sort_keys=True, ensure_ascii=False); the
\* text is represented by the sorted pairs, TypeError by raised
json_dumps(obj) ==
    IF \E i \in DOMAIN obj : ~serializable(obj[i][2])
    THEN [raised |-> TRUE, text |-> <<>>]
    ELSE [raised |-> FALSE,
          text |-> sort_keys([i \in DOMAIN obj |->
                      <<obj[i][1],
                        IF obj[i][2].t = "list"
                        THEN List([j \in DOMAIN obj[i][2].v |->
                                      sort_keys(obj[i][2].v[j])])
                        ELSE obj[i][2]>>])]

\* calculate_patient_hash, lines 50-82; the md5 digest is represented by the
\* text it is computed from
patient_hash(patient_data) ==
    LET dumped == json_dumps(key_fields(format_patient_data(patient_data)))
    IN  [raised |-> dumped.raised, digest |-> dumped.text]

\* csv_exporter.py, lines 47-64: calculate_age on the "Дата рождения" text of
\* format_patient_data, for a date.today() in 2026; the dash is no date, the
\* subtraction raises and the dash is returned
calculate_age(birth_date) ==
    IF birth_date.v = "1990" THEN Str("36")
    ELSE IF birth_date.v = "1991" THEN Str("35")
    ELSE Str("-")

\* bool(value)
truthy(value) == or_else(value, Null) # Null

\* convert_patient_data_to_csv_row, lines 140-216: the columns made from
\* the entries of format_patient_data that the model has.  Every
\* appointment of the model has the status fetch_future_appointments gives
\* by default, so the first one is the next appointment (lines 154-162).
convert_patient_data_to_csv_row(data) ==
    LET age_str == calculate_age(dict_get(data, "birth_date", Null))
        future_appointments == dict_get(data, "next_visits", List(<<>>)).v
    IN  << <<"surname",  dict_get(data, "surname", Str("-"))>>,
           <<"age",      IF age_str.v = "-" THEN Str("") ELSE age_str>>,
           <<"next_appointment",
                         IF future_appointments = <<>> THEN Str("-")
                         ELSE dict_get(future_appointments[1],
                                       "WORK_DATE_STR", Null)>>,
           <<"paid",     dict_get(data, "paid", Num("0"))>>,
           <<"branch",   dict_get(data, "branch", Str("-"))>>,
           <<"referred", IF truthy(dict_get(data, "referred", Null))
                         THEN Str("yes") ELSE Str("no")>> >>

\* the snapshots the fingerprint is applied to
InfoKeys == <<"LASTNAME", "FILIAL_NAME", "REKLAMA", "BDATE">>

InfoValues ==
    [LASTNAME    : {Missing, Null, Str(""), Str("x")},
     FILIAL_NAME : {Missing, Null, Str("-"), Str("f")},
     REKLAMA     : {Missing, Null, Num("0"), Num("1")},
     BDATE       : {Missing, DateVal("1990"), DateVal("1991")}]

PaidValues == {Missing, Num("0"), Num("7"), Decimal("7")}

Reverse(s) == [i \in DOMAIN s |-> s[Len(s) + 1 - i]]

\* the dict with the keys of order that f gives a value
make_dict(order, f) ==
    LET ks == SelectSeq(order, LAMBDA k : f[k] # Missing)
    IN  [i \in 1..Len(ks) |-> <<ks[i], f[ks[i]]>>]

\* d[k] = value, or del d[k] when value is Missing
dict_put(d, k, value) ==
    IF value = Missing THEN SelectSeq(d, LAMBDA pair : pair[1] # k)
    ELSE IF dict_has(d, k)
    THEN [i \in DOMAIN d |-> IF d[i][1] = k THEN <<k, value>> ELSE d[i]]
    ELSE Append(d, <<k, value>>)

\* one row of fetch_future_appointments (extract.py, lines 87-100)
Appointment(day) ==
    << <<"WORK_DATE_STR", Str(day)>>, <<"DOCTOR_NAME", Str("dr")>> >>

ApptLists == {<<>>, <<Appointment("d1")>>, <<Reverse(Appointment("d1"))>>,
              <<Appointment("d2")>>}

InfoDicts ==
    {make_dict(order, f) : order \in {InfoKeys, Reverse(InfoKeys)},
                           f \in InfoValues}

\* what collect_patient_data can return: info is None when has_info is FALSE
Snapshots ==
    [has_info : {TRUE}, info : InfoDicts, paid : PaidValues, appts : ApptLists]
    \cup [has_info : {FALSE}, info : {<<>>}, paid : PaidValues, appts : ApptLists]

\* x itself, x with the fields of a dict in the reverse order, and x with one
\* field changed
Variants(x) ==
    {x}
    \cup {[x EXCEPT !.info = Reverse(x.info)]}
    \cup {[x EXCEPT !.appts = [i \in DOMAIN x.appts |-> Reverse(x.appts[i])]]}
    \cup {[x EXCEPT !.info = dict_put(x.info, k, f[k])] :
             k \in {InfoKeys[i] : i \in DOMAIN InfoKeys}, f \in InfoValues}
    \cup {[x EXCEPT !.paid = p] : p \in PaidValues}
    \cup {[x EXCEPT !.appts = a] : a \in ApptLists}

\* ------------------------------------------------------------ the state
VARIABLES
    source,                \* clinical source: patient -> SourceVals
    changes,               \* changes of the source and of the documents so far
    persisted,             \* content of known_patients.json (DATA_FILE)
    files,                 \* patients whose document exists under PDF_DIR
    run,                   \* invocations of main so far
    pc,                    \* position of main
    failure,               \* the call whose exception left main, or "none"
    known,                 \* main: known
    date_range,            \* main: date_range
    filter_pcodes,         \* main: filter_pcodes
    repeat_pcodes,         \* main: repeat_pcodes, in iteration order
    idx,                   \* dates of date_range whose loop body was entered
    queue,                 \* rest of the loop main is in; its head is current
    all_processed_pcodes,  \* main: all_processed_pcodes
    last,                  \* the process_patient call of the latest step
    evaluated,             \* identifiers process_patient ran for in this run
    reEvaluated,           \* identifiers it ran for more than once in this run
    exported,              \* the list the export functions got in this run
    stages,                \* the finalization calls of this run, in order
    report,                \* the management report file
    rows,                  \* the batch of the latest merge into the report
    repeated,              \* the latest merge had the batch of the one before
    snapshots,             \* snapshots collect_patient_data has returned
    digests,               \* their fingerprints, <<>> before they are computed
    documents,             \* the snapshot each document was rendered from
    wb                     \* the workbook a merge holds in memory, or None

vars == <<source, changes, persisted, files, run, pc, failure, known,
          date_range, filter_pcodes, repeat_pcodes, idx, queue,
          all_processed_pcodes, last, evaluated, reEvaluated, exported,
          stages, report, rows, repeated, snapshots, digests, documents, wb>>

\* the variables of the export and of the fingerprint, which main's steps
\* do not touch at this level of detail
aux == <<report, rows, repeated, snapshots, digests, documents, wb>>

AuxInit ==
    /\ report = AbsentReport
    /\ rows = <<>>
    /\ repeated = FALSE
    /\ snapshots = <<>>
    /\ digests = <<>>
    /\ documents = [p \in Patients |-> None]
    /\ wb = None

\* date.today() of a run: after every day a run is asked to process
Today(r) == MaxDate + r

\* the --pcode filters a run can be given, the lists fetch_repeat_patients
\* can return and the lists fetch_primary_patients_today can return
FilterLists == {<<>>, <<"P1">>}
RepeatLists == {<<>>, <<"P2">>}
DailyLists  == {<<>>, <<"P1">>, <<"P1", "P2">>}

\* __main__, lines 333-350: a single date or an ascending range of dates
DateRanges == {[i \in 1..(hi - lo + 1) |-> lo + i - 1] : <<lo, hi>> \in
                   {d \in Dates \X Dates : d[1] <= d[2]}}

\* main(date_range, filter_pcodes) called with a list of dates in either
\* order (line 168: any List[date])
DateLists == DateRanges \cup {Reverse(dr) : dr \in DateRanges}

NoCall == [pcode |-> "", target_date |-> 0, outcome |-> "none", rendered |-> FALSE,
           current_hash |-> None, latest_appt |-> None]

\* what a step records of the process_patient call it made
CallOf(pcode, target_date, fail, res) ==
    [pcode |-> pcode, target_date |-> target_date, outcome |-> res.outcome,
     rendered |-> res.rendered,
     current_hash |-> IF fail = "fetch" THEN None
                      ELSE Some(calculate_patient_hash(source[pcode])),
     latest_appt |-> IF fail = "fetch" THEN None
                     ELSE latest_appt_of(source[pcode].appts)]

\* every evaluation made for the first date of the list
target_date_first == date_range[1]

\* main, line 226: the date of the iteration
target_date == date_range[idx]

Init ==
    /\ AuxInit
    /\ source = [p \in Patients |-> [exists |-> TRUE, data |-> 1,
                                     appts |-> IF p = "P1" THEN {} ELSE {1}]]
    /\ changes = 0
    /\ persisted = AbsentFile
    /\ files = {}
    /\ run = 0
    /\ pc = "idle"
    /\ failure = "none"
    /\ known = <<>>
    /\ date_range = <<>>
    /\ filter_pcodes = <<>>
    /\ repeat_pcodes = <<>>
    /\ idx = 0
    /\ queue = <<>>
    /\ all_processed_pcodes = <<>>
    /\ last = NoCall
    /\ evaluated = {}
    /\ reEvaluated = {}
    /\ exported = None
    /\ stages = <<>>

\* the clinical database changes between two runs: a patient record appears
\* or disappears, its tracked fields change, or its appointments change
SourceChange ==
    /\ UNCHANGED aux
    /\ UNCHANGED <<exported, stages>>
    /\ changes < MaxChanges
    /\ pc \in {"idle", "aborted"}
    /\ \E p \in Patients :
          \E s \in SourceMoves(source[p]) :
              source' = [source EXCEPT ![p] = s]
    /\ changes' = changes + 1
    /\ last' = NoCall
    /\ UNCHANGED <<persisted, files, run, pc, failure, known, date_range,
                   filter_pcodes, repeat_pcodes, idx, queue,
                   all_processed_pcodes, evaluated, reEvaluated>>

\* a document is deleted from output/reports between two runs
FileRemoved ==
    /\ UNCHANGED aux
    /\ UNCHANGED <<exported, stages>>
    /\ changes < MaxChanges
    /\ pc \in {"idle", "aborted"}
    /\ \E p \in files : files' = files \ {p}
    /\ changes' = changes + 1
    /\ last' = NoCall
    /\ UNCHANGED <<source, persisted, run, pc, failure, known, date_range,
                   filter_pcodes, repeat_pcodes, idx, queue,
                   all_processed_pcodes, evaluated, reEvaluated>>

\* main is left: its locals are gone
Leave ==
    /\ known' = <<>>
    /\ date_range' = <<>>
    /\ filter_pcodes' = <<>>
    /\ repeat_pcodes' = <<>>
    /\ idx' = 0
    /\ queue' = <<>>
    /\ all_processed_pcodes' = <<>>
    /\ last' = NoCall

\* an exception leaves main: the run is over, nothing more is written
Abort(cause) ==
    /\ pc' = "aborted"
    /\ failure' = cause
    /\ Leave
    /\ UNCHANGED <<source, changes, persisted, files, run, evaluated, reEvaluated>>

\* the loaded registry written back when the connection fails
ConnectFails_saving ==
    /\ failure' = "connect"
    /\ pc' = "aborted"
    /\ Leave
    /\ persisted' = save_known_patients(load_known_patients(persisted).data)

\* main, line 189: get_connection raises; nothing was evaluated or written
ConnectFails ==
    /\ failure' = "connect"
    /\ pc' = "aborted"
    /\ Leave
    /\ UNCHANGED persisted

\* main, lines 168-194: load the registry, connect, fetch the repeat list;
\* date_ranges are the lists of dates the caller can pass
StartRunWith(date_ranges) ==
    /\ UNCHANGED aux
    /\ pc \in {"idle", "aborted"}
    /\ run < MaxRuns
    /\ run' = run + 1
    /\ evaluated' = {}
    /\ reEvaluated' = {}
    /\ exported' = None
    /\ stages' = <<>>
    /\ LET loaded == load_known_patients(persisted)
       IN  IF loaded.raised
           THEN /\ failure' = "load"
                /\ pc' = "aborted"
                /\ Leave
                /\ UNCHANGED persisted
           ELSE \/ ConnectFails
                \/ \* fetch_repeat_patients raises
                   /\ failure' = "repeat_query"
                   /\ pc' = "aborted"
                   /\ Leave
                   /\ UNCHANGED persisted
                \/ /\ \E dr \in date_ranges, f \in FilterLists, rp \in RepeatLists :
                         /\ date_range' = dr
                         /\ filter_pcodes' = f
                         /\ repeat_pcodes' = rp
                   /\ known' = loaded.data
                   /\ queue' = KeyOrder(known')
                   /\ all_processed_pcodes' = <<>>
                   /\ idx' = 0
                   /\ last' = NoCall
                   /\ pc' = "pre"
                   /\ failure' = "none"
                   /\ UNCHANGED persisted
    /\ UNCHANGED <<source, changes, files>>

\* __main__, line 359: main(date_range, filter_pcodes)
StartRun == StartRunWith(DateRanges)

\* the step of main that calls process_patient for the head of the queue
\* and, unless it is the pre-run check, registers it (lines 162-165)
Evaluate(pcode, k, tdate, is_new, register) ==
    \E fail \in {"none", "fetch", "render"} :
        LET res == process_patient(k, files, pcode, tdate, is_new,
                                   source[pcode], fail, Today(run))
        IN  /\ known' = res.known
            /\ files' = res.files
            /\ last' = CallOf(pcode, tdate, fail, res)
            /\ evaluated' = evaluated \cup {pcode}
            /\ reEvaluated' = IF pcode \in evaluated
                              THEN reEvaluated \cup {pcode} ELSE reEvaluated
            /\ all_processed_pcodes' =
                  IF register THEN Register(all_processed_pcodes, pcode)
                  ELSE all_processed_pcodes


\* main, lines 197-207 and 218-224: one iteration of the pre-run check up to
\* the call of process_patient
PreCheck ==
    /\ UNCHANGED aux
    /\ UNCHANGED <<exported, stages>>
    /\ pc = "pre"
    /\ queue # <<>>
    /\ LET pcode == Head(queue)
           current_hash == calculate_patient_hash(source[pcode])
       IN  \/ \* collect_patient_data or calculate_patient_hash raises: continue
              /\ queue' = Tail(queue)
              /\ last' = NoCall
              /\ UNCHANGED <<pc, known, files, evaluated, reEvaluated,
                             all_processed_pcodes>>
           \/ /\ Get(known, pcode, "data_hash") # Some(current_hash)
              /\ Evaluate(pcode, known, date_range[1], FALSE, FALSE)
              /\ pc' = "pre_update"
              /\ UNCHANGED queue
           \/ /\ Get(known, pcode, "data_hash") = Some(current_hash)
              /\ known' = [known EXCEPT ![pcode].last_checked = Some(date_range[1])]
              /\ queue' = Tail(queue)
              /\ last' = NoCall
              /\ UNCHANGED <<pc, files, evaluated, reEvaluated,
                             all_processed_pcodes>>
    /\ UNCHANGED <<source, changes, persisted, run, failure, date_range,
                   filter_pcodes, repeat_pcodes, idx>>

\* main, lines 209-216: after process_patient returned in the pre-run check
PreUpdate ==
    /\ UNCHANGED aux
    /\ UNCHANGED <<exported, stages>>
    /\ pc = "pre_update"
    /\ LET pcode == Head(queue)
           current_hash == calculate_patient_hash(source[pcode])
       IN  /\ known' = [known EXCEPT ![pcode].data_hash = Some(current_hash),
                                     ![pcode].last_checked = Some(date_range[1]),
                                     ![pcode].last_updated = Some(Today(run))]
           /\ all_processed_pcodes' = Register(all_processed_pcodes, pcode)
    /\ queue' = Tail(queue)
    /\ pc' = "pre"
    /\ last' = NoCall
    /\ UNCHANGED <<source, changes, persisted, files, run, failure, date_range,
                   filter_pcodes, repeat_pcodes, idx, evaluated, reEvaluated>>

\* main, line 226 reached from the pre-run check
PreDone ==
    /\ UNCHANGED aux
    /\ UNCHANGED <<exported, stages>>
    /\ pc = "pre"
    /\ queue = <<>>
    /\ pc' = "date"
    /\ last' = NoCall
    /\ UNCHANGED <<source, changes, persisted, files, run, failure, known,
                   date_range, filter_pcodes, repeat_pcodes, idx, queue,
                   all_processed_pcodes, evaluated, reEvaluated>>

\* main, lines 226-231: the head of the loop over date_range
NextDate ==
    /\ UNCHANGED aux
    /\ UNCHANGED <<exported, stages>>
    /\ pc = "date"
    /\ IF idx < Len(date_range)
       THEN /\ idx' = idx + 1
            /\ queue' = repeat_pcodes
            /\ pc' = "repeat"
       ELSE /\ pc' = "export"
            /\ UNCHANGED <<idx, queue>>
    /\ last' = NoCall
    /\ UNCHANGED <<source, changes, persisted, files, run, failure, known,
                   date_range, filter_pcodes, repeat_pcodes,
                   all_processed_pcodes, evaluated, reEvaluated>>

\* main, lines 231-250 (repeat list) and 253-267 (filter): one iteration
ListedStep(is_new) ==
    /\ UNCHANGED <<exported, stages>>
    /\ queue # <<>>
    /\ LET pcode == Head(queue)
       IN  \/ \* fetch_main_info raises
              Abort("main_info")
           \/ /\ ~source[pcode].exists
              /\ queue' = Tail(queue)
              /\ last' = NoCall
              /\ UNCHANGED <<source, changes, persisted, files, run, pc, failure,
                             known, date_range, filter_pcodes, repeat_pcodes, idx,
                             all_processed_pcodes, evaluated, reEvaluated>>
           \/ /\ source[pcode].exists
              /\ Evaluate(pcode,
                          IF pcode \in DOMAIN known THEN known
                          ELSE Put(known, pcode, NewEntry(target_date)),
                          target_date, is_new, TRUE)
              /\ queue' = Tail(queue)
              /\ UNCHANGED <<source, changes, persisted, run, pc, failure,
                             date_range, filter_pcodes, repeat_pcodes, idx>>

RepeatStep ==
    /\ UNCHANGED aux
    /\ pc = "repeat"
    /\ ListedStep(FALSE)

FilterStep ==
    /\ UNCHANGED aux
    /\ pc = "filter"
    /\ ListedStep(TRUE)

\* main, lines 252 and 269-270: after the repeat list, enter the filter loop
\* or fetch the day's primary patients
RepeatDone ==
    /\ UNCHANGED aux
    /\ UNCHANGED <<exported, stages>>
    /\ pc = "repeat"
    /\ queue = <<>>
    /\ IF filter_pcodes # <<>>
       THEN /\ pc' = "filter"
            /\ queue' = filter_pcodes
            /\ last' = NoCall
            /\ UNCHANGED <<source, changes, persisted, files, run, failure, known,
                           date_range, filter_pcodes, repeat_pcodes, idx,
                           all_processed_pcodes, evaluated, reEvaluated>>
       ELSE \/ \* fetch_primary_patients_today raises
               Abort("daily_query")
            \/ /\ \E new_patients \in DailyLists : queue' = new_patients
               /\ pc' = "daily"
               /\ last' = NoCall
               /\ UNCHANGED <<source, changes, persisted, files, run, failure,
                              known, date_range, filter_pcodes, repeat_pcodes, idx,
                              all_processed_pcodes, evaluated, reEvaluated>>

\* main, lines 271-288: one row of the day's primary patients
DailyStep ==
    /\ UNCHANGED aux
    /\ UNCHANGED <<exported, stages>>
    /\ pc = "daily"
    /\ queue # <<>>
    /\ LET pcode == Head(queue)
           last_checked == Get(known, pcode, "last_checked")
       IN  IF daily_due(last_checked, target_date)
           THEN /\ Evaluate(pcode,
                            IF pcode \in DOMAIN known THEN known
                            ELSE Put(known, pcode, NewEntry(target_date)),
                            target_date, TRUE, TRUE)
           ELSE /\ last' = NoCall
                /\ UNCHANGED <<known, files, evaluated, reEvaluated,
                               all_processed_pcodes>>
    /\ queue' = Tail(queue)
    /\ UNCHANGED <<source, changes, persisted, run, pc, failure, date_range,
                   filter_pcodes, repeat_pcodes, idx>>

\* the date loop going on to the daily discovery after the filter loop
DateDone_falling_through ==
    /\ UNCHANGED aux
    /\ UNCHANGED <<exported, stages>>
    /\ pc \in {"filter", "daily"}
    /\ queue = <<>>
    /\ IF pc = "filter"
       THEN /\ pc' = "daily"
            /\ \E new_patients \in DailyLists : queue' = new_patients
       ELSE /\ pc' = "date"
            /\ UNCHANGED queue
    /\ last' = NoCall
    /\ UNCHANGED <<source, changes, persisted, files, run, failure, known,
                   date_range, filter_pcodes, repeat_pcodes, idx,
                   all_processed_pcodes, evaluated, reEvaluated>>

\* main: the filter loop or the daily loop is exhausted, back to line 226
DateDone ==
    /\ UNCHANGED aux
    /\ UNCHANGED <<exported, stages>>
    /\ pc \in {"filter", "daily"}
    /\ queue = <<>>
    /\ pc' = "date"
    /\ last' = NoCall
    /\ UNCHANGED <<source, changes, persisted, files, run, failure, known,
                   date_range, filter_pcodes, repeat_pcodes, idx, queue,
                   all_processed_pcodes, evaluated, reEvaluated>>

\* the export whose exception leaves main
Export_propagating ==
    /\ UNCHANGED aux
    /\ pc = "export"
    /\ IF has_processed(all_processed_pcodes)
       THEN \/ /\ exported' = Some(sorted_unique(all_processed_pcodes))
               /\ stages' = Append(stages, "export")
               /\ pc' = "save"
               /\ last' = NoCall
               /\ UNCHANGED <<source, changes, persisted, files, run, failure,
                              known, date_range, filter_pcodes, repeat_pcodes,
                              idx, queue, all_processed_pcodes, evaluated,
                              reEvaluated>>
            \/ /\ exported' = Some(sorted_unique(all_processed_pcodes))
               /\ stages' = Append(stages, "export_failed")
               /\ Abort("export")
       ELSE /\ pc' = "save"
            /\ last' = NoCall
            /\ UNCHANGED <<source, changes, persisted, files, run, failure,
                           known, date_range, filter_pcodes, repeat_pcodes,
                           idx, queue, all_processed_pcodes, evaluated,
                           reEvaluated, exported, stages>>

\* main, lines 290-299: export_patients_to_csv and export_personal_data_to_csv
\* get the sorted identifiers; an exception of theirs is caught
Export ==
    /\ UNCHANGED aux
    /\ pc = "export"
    /\ IF has_processed(all_processed_pcodes)
       THEN /\ exported' = Some(sorted_unique(all_processed_pcodes))
            /\ \E result \in {"export", "export_failed"} :
                  stages' = Append(stages, result)
       ELSE UNCHANGED <<exported, stages>>
    /\ pc' = "save"
    /\ last' = NoCall
    /\ UNCHANGED <<source, changes, persisted, files, run, failure, known,
                   date_range, filter_pcodes, repeat_pcodes, idx, queue,
                   all_processed_pcodes, evaluated, reEvaluated>>

\* main, lines 301-302: the registry is written
Save ==
    /\ UNCHANGED aux
    /\ pc = "save"
    /\ persisted' = save_known_patients(known)
    /\ stages' = Append(stages, "save")
    /\ pc' = "upload"
    /\ last' = NoCall
    /\ UNCHANGED <<source, changes, files, run, failure, known,
                   date_range, filter_pcodes, repeat_pcodes, idx, queue,
                   all_processed_pcodes, evaluated, reEvaluated, exported>>

\* main, lines 304-321: the upload of the CSV to Bitrix; its exceptions are
\* caught; main returns
Upload ==
    /\ UNCHANGED aux
    /\ pc = "upload"
    /\ IF has_processed(all_processed_pcodes)
       THEN \E result \in {"upload", "upload_failed"} :
               stages' = Append(stages, result)
       ELSE UNCHANGED stages
    /\ pc' = "idle"
    /\ Leave
    /\ UNCHANGED <<source, changes, persisted, files, run, failure,
                   evaluated, reEvaluated, exported>>

Next ==
    \/ SourceChange
    \/ FileRemoved
    \/ StartRun
    \/ PreCheck
    \/ PreUpdate
    \/ PreDone
    \/ NextDate
    \/ RepeatStep
    \/ RepeatDone
    \/ FilterStep
    \/ DailyStep
    \/ DateDone
    \/ Export
    \/ Save
    \/ Upload

Spec == Init /\ [][Next]_vars

\* ------------------------------------------- the runs with their report
\* main, lines 290-299, with what export_patients_to_csv (lines 220-281) does
\* to the report file "Управленческий отчёт.xlsx" (the management_report.xlsx
\* that main deletes in lines 179-187 is another path).  The rows of the
\* identifiers whose data was collected are merged into the report; the file
\* is left as it was when no row was collected (lines 245-247) or when a step
\* up to the save of the merge raises (lines 279-281, 616-617).  rows is the
\* batch that was merged.
ExportToReport ==
    /\ UNCHANGED <<repeated, snapshots, digests, documents, wb>>
    /\ pc = "export"
    /\ IF has_processed(all_processed_pcodes)
       THEN LET pcodes == sorted_unique(all_processed_pcodes)
            IN  /\ exported' = Some(pcodes)
                /\ \E result \in {"export", "export_failed"} :
                      stages' = Append(stages, result)
                /\ \/ \E collected \in
                          (SUBSET {pcodes[i] : i \in DOMAIN pcodes}) \ {{}} :
                          /\ rows' = csv_rows(source, pcodes, collected)
                          /\ report' = append_to_management_report(report, rows')
                   \/ /\ rows' = <<>>
                      /\ UNCHANGED report
       ELSE UNCHANGED <<exported, stages, report, rows>>
    /\ pc' = "save"
    /\ last' = NoCall
    /\ UNCHANGED <<source, changes, persisted, files, run, failure, known,
                   date_range, filter_pcodes, repeat_pcodes, idx, queue,
                   all_processed_pcodes, evaluated, reEvaluated>>

\* the runs of main one after another on a source and documents that nothing
\* else changes, with the report file
PipelineNext ==
    \/ StartRun
    \/ PreCheck
    \/ PreUpdate
    \/ PreDone
    \/ NextDate
    \/ RepeatStep
    \/ RepeatDone
    \/ FilterStep
    \/ DailyStep
    \/ DateDone
    \/ ExportToReport
    \/ Save
    \/ Upload

SpecPipeline == Init /\ [][PipelineNext]_vars

\* ------------------------------------------- main called with any list
\* line 168: main as a function of its arguments
StartMain == StartRunWith(DateLists)

\* the runs of main one after another, each with a list of dates in either
\* order, on a source and documents that nothing else changes
AnyOrderNext ==
    \/ StartMain
    \/ PreCheck
    \/ PreUpdate
    \/ PreDone
    \/ NextDate
    \/ RepeatStep
    \/ RepeatDone
    \/ FilterStep
    \/ DailyStep
    \/ DateDone
    \/ Export
    \/ Save
    \/ Upload

SpecAnyOrder == Init /\ [][AnyOrderNext]_vars

\* ------------------------------------------------ the registry file alone
\* load_known_patients and save_known_patients applied to every content the
\* registry file can have; the variables of main keep their initial values
StoreEntries == {EmptyEntry} \cup {NewEntry(d) : d \in Dates}

StoreMappings == UNION {[S -> StoreEntries] : S \in SUBSET Patients}

StoreFiles == {AbsentFile} \cup DamagedFiles \cup {JsonFile(m) : m \in StoreMappings}

StoreKeep ==
    UNCHANGED <<report, rows, repeated, snapshots, digests, documents, wb,
                source, changes, files, run, date_range, filter_pcodes,
                repeat_pcodes, idx, queue, all_processed_pcodes, last,
                evaluated, reEvaluated, exported, stages>>

StoreInit ==
    /\ AuxInit
    /\ source = [p \in Patients |-> NoPatient]
    /\ changes = 0
    /\ persisted \in StoreFiles
    /\ files = {}
    /\ run = 0
    /\ pc = "store"
    /\ failure = "none"
    /\ known = <<>>
    /\ date_range = <<>>
    /\ filter_pcodes = <<>>
    /\ repeat_pcodes = <<>>
    /\ idx = 0
    /\ queue = <<>>
    /\ all_processed_pcodes = <<>>
    /\ last = NoCall
    /\ evaluated = {}
    /\ reEvaluated = {}
    /\ exported = None
    /\ stages = <<>>

\* line 170: known = load_known_patients(); an exception ends the process
StoreLoad ==
    /\ LET loaded == load_known_patients(persisted)
       IN  IF loaded.raised
           THEN /\ failure' = "load"
                /\ pc' = "aborted"
                /\ known' = <<>>
           ELSE /\ failure' = "none"
                /\ pc' = "loaded"
                /\ known' = loaded.data
    /\ UNCHANGED persisted
    /\ StoreKeep

\* the process changes the mapping it holds in memory
StoreUpdate ==
    /\ pc # "aborted"
    /\ \E m \in StoreMappings : known' = m
    /\ pc' = "updated"
    /\ failure' = "none"
    /\ UNCHANGED persisted
    /\ StoreKeep

\* lines 97-98: save_known_patients(known), the write completes
StoreSave ==
    /\ pc # "aborted"
    /\ persisted' = save_known_patients(known)
    /\ pc' = "saved"
    /\ failure' = "none"
    /\ UNCHANGED known
    /\ StoreKeep

\* lines 97-98: write_text has truncated the file and the write stops
\* (the disk is full, the process is killed); the process is over
StoreSaveInterrupted ==
    /\ pc # "aborted"
    /\ persisted' \in InterruptedWrites
    /\ pc' = "aborted"
    /\ failure' = "save"
    /\ known' = <<>>
    /\ StoreKeep

StoreNext ==
    \/ StoreLoad
    \/ StoreUpdate
    \/ StoreSave
    \/ StoreSaveInterrupted

SpecStore == StoreInit /\ [][StoreNext]_vars

TypeOK ==
    /\ source \in [Patients -> SourceVals]
    /\ DOMAIN known \subseteq Patients
    /\ DOMAIN persisted.data \subseteq Patients
    /\ files \subseteq Patients
    /\ run \in 0..MaxRuns
    /\ idx \in 0..MaxDate


\* ------------------------------------------- the management report alone
\* the variables of main and of the registry file
MainVars == <<source, changes, persisted, files, run, pc, failure, known,
              date_range, filter_pcodes, repeat_pcodes, idx, queue,
              all_processed_pcodes, last, evaluated, reEvaluated, exported,
              stages>>

\* main is not running
MainAtRest ==
    /\ source = [p \in Patients |-> NoPatient]
    /\ changes = 0
    /\ persisted = AbsentFile
    /\ files = {}
    /\ run = 0
    /\ pc = "idle"
    /\ failure = "none"
    /\ known = <<>>
    /\ date_range = <<>>
    /\ filter_pcodes = <<>>
    /\ repeat_pcodes = <<>>
    /\ idx = 0
    /\ queue = <<>>
    /\ all_processed_pcodes = <<>>
    /\ last = NoCall
    /\ evaluated = {}
    /\ reEvaluated = {}
    /\ exported = None
    /\ stages = <<>>

ReportInit ==
    /\ MainAtRest
    /\ AuxInit

\* export_patients_to_csv, line 276: append_to_management_report(path, rows)
\* on the report file as the previous call left it
Merge ==
    /\ \E batch \in Batches :
          /\ report' = append_to_management_report(report, batch)
          /\ rows' = batch
          /\ repeated' = (report.exists /\ batch = rows)
    /\ UNCHANGED <<MainVars, snapshots, digests, documents, wb>>

ReportNext == Merge

SpecReport == ReportInit /\ [][ReportNext]_vars

\* ------------------------------------------- the merge, step by step
\* append_to_management_report with the workbook it holds in memory and the
\* steps that can raise; pc is the position inside the call ("idle" when
\* no call is in progress) and failure is "merge" after the error of line
\* 617 was logged.

\* the handler writing what the workbook held
merge_failed_saving(report_before, workbook) ==
    [report |-> [exists |-> TRUE, sheet |-> workbook,
                 filter |-> report_before.filter],
     raised |-> FALSE]

\* lines 616-617: except Exception logs the error; nothing is saved and
\* nothing is raised to the caller
merge_failed(report_before, workbook) ==
    [report |-> report_before, raised |-> FALSE]

MergeKeep ==
    UNCHANGED <<source, changes, persisted, files, run, known, date_range,
                filter_pcodes, repeat_pcodes, idx, queue,
                all_processed_pcodes, last, evaluated, reEvaluated, exported,
                stages, repeated, snapshots, digests, documents>>

\* lines 326-337: the workbook is loaded from the file or created
MergeOpen ==
    /\ pc = "idle"
    /\ \E batch \in Batches : rows' = batch
    /\ wb' = Some(open_sheet(report))
    /\ pc' = "opened"
    /\ failure' = "none"
    /\ UNCHANGED report
    /\ MergeKeep

\* lines 339-545: the old totals are removed and the rows merged, in memory
MergeInMemory ==
    /\ pc = "opened"
    /\ wb' = Some(merge_rows(strip_blank_tail(strip_totals(wb[1])), rows))
    /\ pc' = "merged"
    /\ UNCHANGED <<report, rows, failure>>
    /\ MergeKeep

\* lines 547-611: the totals and the filter are written and wb.save(path)
\* replaces the file
MergeSave ==
    /\ pc = "merged"
    /\ report' = [exists |-> TRUE,
                  sheet  |-> write_totals(wb[1]),
                  filter |-> <<1, last_row_of(wb[1])>>]
    /\ wb' = None
    /\ pc' = "idle"
    /\ UNCHANGED <<rows, failure>>
    /\ MergeKeep

\* a step before the save raises
MergeRaises ==
    /\ pc \in {"opened", "merged"}
    /\ LET res == merge_failed(report, wb[1])
       IN  /\ report' = res.report
           /\ pc' = IF res.raised THEN "aborted" ELSE "idle"
    /\ failure' = "merge"
    /\ wb' = None
    /\ UNCHANGED rows
    /\ MergeKeep

MergeNext ==
    \/ MergeOpen
    \/ MergeInMemory
    \/ MergeSave
    \/ MergeRaises

SpecMerge == ReportInit /\ [][MergeNext]_vars

\* ------------------------------------------------- the fingerprint alone
HashInit ==
    /\ MainAtRest
    /\ report = AbsentReport
    /\ rows = <<>>
    /\ repeated = FALSE
    /\ \E x \in Snapshots : \E y \in Variants(x) : snapshots = <<x, y>>
    /\ digests = <<>>
    /\ documents = [p \in Patients |-> None]
    /\ wb = None

\* calculate_patient_hash applied to the two snapshots
Hash ==
    /\ digests = <<>>
    /\ digests' = <<patient_hash(snapshots[1]), patient_hash(snapshots[2])>>
    /\ UNCHANGED <<MainVars, report, rows, repeated, snapshots, documents, wb>>

HashNext == Hash

SpecHash == HashInit /\ [][HashNext]_vars

\* ------------------------------------------- one evaluation, read by read
\* process_patient with the reads of the clinical source it makes, while the
\* clinic goes on writing to its database.  During an evaluation queue holds
\* the identifier, date_range the target date and snapshots the
\* current_data of line 103.
RenderInit ==
    /\ AuxInit
    /\ source = [p \in Patients |-> [exists |-> TRUE, data |-> 1, appts |-> {}]]
    /\ changes = 0
    /\ persisted = AbsentFile
    /\ files = {}
    /\ run = 0
    /\ pc = "rest"
    /\ failure = "none"
    /\ known = <<>>
    /\ date_range = <<>>
    /\ filter_pcodes = <<>>
    /\ repeat_pcodes = <<>>
    /\ idx = 0
    /\ queue = <<>>
    /\ all_processed_pcodes = <<>>
    /\ last = NoCall
    /\ evaluated = {}
    /\ reEvaluated = {}
    /\ exported = None
    /\ stages = <<>>

\* the variables an evaluation does not touch
RenderKeep ==
    UNCHANGED <<persisted, run, failure, filter_pcodes, repeat_pcodes,
                all_processed_pcodes, evaluated, reEvaluated, exported,
                stages, report, rows, repeated, digests, wb>>

\* the clinic changes a patient's record, at any moment
ClinicWrites ==
    /\ changes < MaxChanges
    /\ \E p \in Patients :
          \E s \in SourceMoves(source[p]) :
              source' = [source EXCEPT ![p] = s]
    /\ changes' = changes + 1
    /\ UNCHANGED <<pc, known, files, date_range, idx, queue, last, snapshots,
                   documents>>
    /\ RenderKeep

\* process_patient, lines 103-105: the snapshot is collected and hashed, or
\* one of the reads raises (lines 156-158)
Collect ==
    /\ pc = "rest"
    /\ \E p \in Patients, tdate \in Dates :
          \/ /\ snapshots' = <<source[p]>>
             /\ queue' = <<p>>
             /\ date_range' = <<tdate>>
             /\ idx' = 1
             /\ pc' = "collected"
             /\ last' = NoCall
             /\ UNCHANGED known
          \/ LET res == process_patient(known, files, p, tdate, FALSE,
                                        source[p], "fetch", Today(run))
             IN  /\ known' = res.known
                 /\ last' = [pcode |-> p, target_date |-> tdate,
                             outcome |-> res.outcome, rendered |-> res.rendered,
                             current_hash |-> None, latest_appt |-> None]
                 /\ UNCHANGED <<snapshots, queue, date_range, idx, pc>>
    /\ UNCHANGED <<source, changes, files, documents>>
    /\ RenderKeep

\* process_patient, lines 118-154: the decision on the collected snapshot
\* and, for a regeneration, build_patient_report(conn, pcode, path), which
\* collects the data of the patient again (patient_report.py, lines 274-281)
\* and renders the document from what it reads then
Render ==
    /\ pc = "collected"
    /\ \E fail \in {"none", "render"} :
          LET pcode == Head(queue)
              res == process_patient(known, files, pcode, target_date, FALSE,
                                     snapshots[1], fail, Today(run))
          IN  /\ known' = res.known
              /\ files' = res.files
              /\ documents' = IF res.outcome = "regen"
                               THEN [documents EXCEPT ![pcode] = Some(source[pcode])]
                               ELSE documents
              /\ last' = [pcode |-> pcode, target_date |-> target_date,
                          outcome |-> res.outcome, rendered |-> res.rendered,
                          current_hash |->
                              Some(calculate_patient_hash(snapshots[1])),
                          latest_appt |-> latest_appt_of(snapshots[1].appts)]
    /\ snapshots' = <<>>
    /\ queue' = <<>>
    /\ date_range' = <<>>
    /\ idx' = 0
    /\ pc' = "rest"
    /\ UNCHANGED <<source, changes>>
    /\ RenderKeep

RenderNext ==
    \/ ClinicWrites
    \/ Collect
    \/ Render

SpecRender == RenderInit /\ [][RenderNext]_vars

\* ------------------------------------------------------------ properties
\* the registry a run would load from the file
Stored == load_known_patients(persisted).data

InRun == pc \notin {"idle", "aborted"}

\* the step is a call of process_patient
Called == last' # NoCall

\* the registry entry of q as an optional value
EntryOf(k, q) == IF q \in DOMAIN k THEN Some(k[q]) ELSE None

ElemsOf(list) == {list[i] : i \in DOMAIN list}

\* C1: within one run process_patient runs at most once for any identifier,
\* across all dates of the range and all discovery sources.
C1_AtMostOncePerRun == reEvaluated = {}

\* C2: in a multi-date run the registry file holds the registry as it is
\* when a date has been fully processed and a later date is about to start.
C2_CheckpointAfterEachDate ==
    (pc = "date" /\ idx >= 1 /\ idx < Len(date_range)) => Stored = known

\* a patient whose fingerprint, latest appointment and document are what the
\* last completed run recorded in the registry file
UnchangedSinceSaved(pcode) ==
    /\ pcode \in DOMAIN Stored
    /\ pcode \in files
    /\ Stored[pcode].data_hash = Some(calculate_patient_hash(source[pcode]))
    /\ Stored[pcode].last_appointment_date = latest_appt_of(source[pcode].appts)

\* C3: in a run that follows a completed run, no render call is issued for a
\* patient that is unchanged since that run, and its data_hash and
\* last_updated keep their values.
C3_RenderOnlyWhenChanged ==
    [][(Called /\ UnchangedSinceSaved(last'.pcode)) =>
          /\ ~last'.rendered
          /\ Get(known', last'.pcode, "data_hash") = Stored[last'.pcode].data_hash
          /\ Get(known', last'.pcode, "last_updated") = Stored[last'.pcode].last_updated
      ]_vars

\* a later upcoming appointment than the recorded one is known
LaterAppointment(latest_appt, last_saved_appt) ==
    /\ latest_appt # None
    /\ last_saved_appt = None \/ latest_appt[1] > last_saved_appt[1]

\* C4: process_patient takes the skip path for an entry whose data_hash is the
\* current fingerprint, whose document exists and for which no appointment
\* later than last_appointment_date is known (none at all included).
C4_SkipWhenNothingNew ==
    [][(/\ Called
        /\ last'.current_hash # None
        /\ last'.pcode \in files
        /\ Get(known, last'.pcode, "data_hash") = last'.current_hash
        /\ ~LaterAppointment(last'.latest_appt,
                             Get(known, last'.pcode, "last_appointment_date")))
       => /\ last'.outcome = "skip"
          /\ ~last'.rendered
          /\ Get(known', last'.pcode, "data_hash") = Get(known, last'.pcode, "data_hash")
          /\ Get(known', last'.pcode, "last_updated") = Get(known, last'.pcode, "last_updated")
      ]_vars

\* C5: process_patient invokes the renderer whenever the document is missing,
\* no data_hash is recorded, the fingerprint differs from the recorded one,
\* or the latest appointment is later than the recorded one.
C5_RegenerateWhenAnyHolds ==
    [][(/\ Called
        /\ last'.current_hash # None
        /\ \/ last'.pcode \notin files
           \/ Get(known, last'.pcode, "data_hash") = None
           \/ Get(known, last'.pcode, "data_hash") # last'.current_hash
           \/ LaterAppointment(last'.latest_appt,
                               Get(known, last'.pcode, "last_appointment_date")))
       => last'.rendered
      ]_vars

C5_Witness ==
    /\ last.rendered
    /\ last.outcome = "regen"
    /\ last.pcode \in DOMAIN Stored

\* C6: after a regeneration whose render succeeds the entry holds the
\* fingerprint of the current snapshot, the maximum upcoming appointment day
\* (or none), the target date as last_checked and processed_on, and the date
\* of the run as last_updated.
C6_EntryAfterRegeneration ==
    [][last'.outcome = "regen" =>
          LET pcode == last'.pcode
          IN  /\ pcode \in DOMAIN known'
              /\ pcode \in files'
              /\ known'[pcode].data_hash = Some(calculate_patient_hash(source[pcode]))
              /\ known'[pcode].last_appointment_date =
                    (IF source[pcode].appts = {} THEN None
                     ELSE Some(Max(source[pcode].appts)))
              /\ known'[pcode].last_checked = Some(last'.target_date)
              /\ known'[pcode].processed_on = Some(last'.target_date)
              /\ known'[pcode].last_updated = Some(Today(run))
              /\ last'.target_date \in ElemsOf(date_range)
      ]_vars

C6_Witness ==
    /\ last.outcome = "regen"
    /\ known[last.pcode].last_appointment_date # None
    /\ known[last.pcode].last_updated = Some(Today(run))

\* C7: on the skip path only last_checked and processed_on of the patient's
\* entry change; no other entry changes.
C7_SkipFrame ==
    [][last'.outcome = "skip" =>
          LET pcode == last'.pcode
          IN  /\ DOMAIN known' = DOMAIN known
              /\ pcode \in DOMAIN known
              /\ \A q \in DOMAIN known : q # pcode => known'[q] = known[q]
              /\ known'[pcode].data_hash = known[pcode].data_hash
              /\ known'[pcode].last_appointment_date = known[pcode].last_appointment_date
              /\ known'[pcode].last_updated = known[pcode].last_updated
              /\ known'[pcode].last_checked = Some(last'.target_date)
              /\ known'[pcode].processed_on = Some(last'.target_date)
              /\ files' = files
      ]_vars

C7_Witness ==
    /\ last.outcome = "skip"
    /\ known[last.pcode].last_updated # Some(Today(run))
    /\ Cardinality(DOMAIN known) > 1

\* C8: when the fetch, the fingerprint or the render raises, process_patient
\* stamps processed_on with the target date (creating the entry if needed),
\* leaves data_hash, last_appointment_date and last_updated as they were, and
\* the exception does not leave process_patient.
C8_ErrorIsCaught ==
    [][last'.outcome = "error" =>
          LET pcode == last'.pcode
          IN  /\ pcode \in DOMAIN known'
              /\ known'[pcode].processed_on = Some(last'.target_date)
              /\ known'[pcode].data_hash = Get(known, pcode, "data_hash")
              /\ known'[pcode].last_appointment_date =
                    Get(known, pcode, "last_appointment_date")
              /\ known'[pcode].last_updated = Get(known, pcode, "last_updated")
              /\ \A q \in DOMAIN known : q # pcode =>
                    q \in DOMAIN known' /\ known'[q] = known[q]
              /\ pc' # "aborted"
              /\ failure' = "none"
      ]_vars

C8_Witness ==
    /\ last.outcome = "error"
    /\ last.rendered
    /\ known[last.pcode].data_hash # None

\* C9: a failure while looking up, fetching or rendering one patient never
\* aborts the run.
C9_PatientFailureNeverAborts == failure # "main_info"

\* C10: in a run with an explicit filter only the identifiers of the filter
\* are evaluated and only their registry entries are modified.
C10_FilterScopesTheRun ==
    [][(InRun /\ pc' \notin {"idle", "aborted"} /\ filter_pcodes # <<>>) =>
          /\ Called => last'.pcode \in ElemsOf(filter_pcodes)
          /\ \A q \in Patients \ ElemsOf(filter_pcodes) :
                EntryOf(known', q) = EntryOf(known, q)
      ]_vars


\* the position of a run after the step
InRunNext == pc' \notin {"idle", "aborted"}

Rank(p) == CHOOSE i \in DOMAIN PcodeOrder : PcodeOrder[i] = p

ExportStages == {"export", "export_failed"}
UploadStages == {"upload", "upload_failed"}

\* C11: in a run without filter every identifier of the loaded registry whose
\* last_checked is absent or before the date is evaluated for that date, its
\* processed_on is stamped and it is in the accumulator (stated for the first
\* date of the run, when that date has been processed).
C11_RegistryReplay ==
    (pc = "date" /\ idx = 1 /\ filter_pcodes = <<>>) =>
        \A p \in DOMAIN Stored :
            daily_due(Stored[p].last_checked, date_range[1]) =>
                /\ p \in evaluated
                /\ p \in ElemsOf(all_processed_pcodes)
                /\ known[p].processed_on = Some(date_range[1])

\* C12: without a filter an identifier reported by the daily query that is
\* absent from the registry is inserted and evaluated for the date; with a
\* filter the daily query is not used.
C12_DailyDiscovery ==
    [][/\ pc' = "daily" => filter_pcodes' = <<>>
       /\ (pc = "daily" /\ queue # <<>> /\ Head(queue) \notin DOMAIN known) =>
             /\ Head(queue) \in DOMAIN known'
             /\ last'.pcode = Head(queue)
             /\ last'.target_date = target_date
             /\ Head(queue) \in evaluated'
             /\ queue' = Tail(queue)
             /\ pc' = "daily"
      ]_vars

C12_Witness ==
    /\ pc = "daily"
    /\ last.outcome = "regen"
    /\ last.pcode \notin DOMAIN Stored
    /\ last.pcode \in DOMAIN known
    /\ last.target_date = target_date

\* C13: every identifier process_patient ran for, whatever the outcome, is in
\* the accumulator that is handed to the export, and its processed_on is the
\* date it was evaluated for.
C13_EvaluatedAreAccumulated ==
    [][/\ (InRunNext /\ pc' # "pre_update") =>
             evaluated' \subseteq ElemsOf(all_processed_pcodes')
       /\ Called => known'[last'.pcode].processed_on = Some(last'.target_date)
       /\ (~Called /\ InRun /\ InRunNext) =>
             \A p \in evaluated : known'[p].processed_on = known[p].processed_on
       /\ (pc = "export" /\ evaluated # {}) =>
             exported' # None /\ ElemsOf(exported'[1]) = evaluated
      ]_vars

C13_Witness ==
    /\ pc = "save"
    /\ exported # None
    /\ Cardinality(evaluated) = 2
    /\ \E p \in evaluated : known[p].data_hash = None

\* C14: finalization happens once, after all dates: the export gets every
\* touched identifier exactly once, in sorted order, and the export is
\* invoked before the upload.
C14_FinalizationOnceSorted ==
    /\ Len(SelectSeq(stages, LAMBDA e : e \in ExportStages)) <= 1
    /\ Len(SelectSeq(stages, LAMBDA e : e \in UploadStages)) <= 1
    /\ (InRun /\ (stages # <<>> \/ exported # None)) =>
          idx = Len(date_range) /\ pc \in {"save", "upload"}
    /\ exported # None =>
          /\ \A i, j \in DOMAIN exported[1] :
                i < j => Rank(exported[1][i]) < Rank(exported[1][j])
          /\ ElemsOf(exported[1]) = evaluated
    /\ \A j \in DOMAIN stages :
          stages[j] \in UploadStages =>
             \E i \in 1..(j - 1) : stages[i] \in ExportStages

C14_Witness ==
    /\ stages = <<"export", "save", "upload">>
    /\ exported = Some(<<"P1", "P2">>)

\* C15: a run in which no identifier was processed invokes neither the export
\* nor the upload.
C15_NothingProcessedNothingExported ==
    evaluated = {} =>
        /\ exported = None
        /\ \A i \in DOMAIN stages : stages[i] = "save"

C15_Witness ==
    /\ pc = "idle"
    /\ run = 2
    /\ evaluated = {}
    /\ stages = <<"save">>
    /\ Stored # <<>>

\* C16: an exception of the export or of the upload does not leave main and
\* does not undo registry state: the registry of the run is written after the
\* export whatever its result and before the upload starts, and the upload
\* leaves the registry file and the documents as they are.
C16_ExportUploadFailuresCaught ==
    [][/\ pc = "export" => pc' = "save" /\ failure' = "none"
       /\ pc = "save" =>
             /\ persisted' = save_known_patients(known)
             /\ files' = files
             /\ pc' = "upload"
       /\ pc = "upload" =>
             /\ Stored = known
             /\ persisted' = persisted
             /\ files' = files
             /\ pc' = "idle"
             /\ failure' = "none"
      ]_vars

C16_Witness ==
    /\ pc = "idle"
    /\ stages = <<"export_failed", "save", "upload_failed">>
    /\ Stored # <<>>
    /\ files # {}

\* C17: when the connection cannot be obtained the run is over before any
\* date: nothing is evaluated, rendered, exported or uploaded and the registry
\* file is as it was.
C17_NoConnectionNoEffect ==
    [][(run' # run /\ failure' = "connect") =>
          /\ pc' = "aborted"
          /\ persisted' = persisted
          /\ files' = files
          /\ evaluated' = {}
          /\ last' = NoCall
          /\ exported' = None
          /\ stages' = <<>>
      ]_vars

C17_Witness ==
    /\ pc = "aborted"
    /\ failure = "connect"
    /\ run = 2
    /\ Stored # <<>>

\* C20: no step of a run removes an identifier: the identifiers of the
\* in-memory registry only grow, they include those loaded, and the set in
\* the file after the run includes the set loaded at its start.
C20_IdentifiersNeverRemoved ==
    [][/\ (InRun /\ InRunNext) => DOMAIN known \subseteq DOMAIN known'
       /\ InRunNext => DOMAIN Stored' \subseteq DOMAIN known'
       /\ DOMAIN Stored \subseteq DOMAIN Stored'
      ]_vars

C20_Witness ==
    /\ pc = "upload"
    /\ run = 2
    /\ Cardinality(DOMAIN Stored) = 2
    /\ last = NoCall


\* a step of load_known_patients
LoadStep == persisted' = persisted /\ (pc' = "loaded" \/ failure' = "load")

\* a step of save_known_patients
SaveStep == pc' = "saved" \/ failure' = "save"

\* C18: load_known_patients never raises; it returns the empty mapping when
\* the file is absent, empty or unreadable (corrupt or undecodable) and the
\* mapping last saved in every other case.
C18_LoadNeverRaises ==
    [][LoadStep =>
          /\ failure' = "none"
          /\ known' = IF persisted.kind = "json" THEN persisted.data ELSE <<>>
      ]_vars

\* C19: save_known_patients(m) followed by load_known_patients() returns
\* exactly m, an identifier absent from m is absent afterwards, and what a
\* later load reads is never anything but the old or the new content.
C19_SaveReplacesAtomically ==
    [][SaveStep =>
          /\ pc' = "saved" =>
                load_known_patients(persisted') = [raised |-> FALSE, data |-> known]
          /\ ~load_known_patients(persisted').raised
          /\ load_known_patients(persisted').data \in
                {load_known_patients(persisted).data, known}
      ]_vars


\* C21: an identifier for which the clinical source returns nothing is
\* skipped, whether it comes from the filter, from the curated repeat list or
\* from the registry: no document is rendered for it, it is not added to the
\* set handed to the export, and its registry entry, if it has one, keeps its
\* data_hash, last_appointment_date and last_updated.
C21_AbsentPatientSkipped ==
    [][(pc \in {"pre", "pre_update", "repeat", "filter"} /\ InRunNext) =>
          \A p \in Patients :
              ~source[p].exists =>
                  /\ ~(last'.pcode = p /\ last'.rendered)
                  /\ p \in ElemsOf(all_processed_pcodes') =>
                        p \in ElemsOf(all_processed_pcodes)
                  /\ p \in DOMAIN known =>
                        /\ known'[p].data_hash = known[p].data_hash
                        /\ known'[p].last_appointment_date =
                              known[p].last_appointment_date
                        /\ known'[p].last_updated = known[p].last_updated
      ]_vars


\* the data rows of the report: the rows after the header up to the first
\* blank row
DataRegion(rep) ==
    IF ~rep.exists THEN <<>>
    ELSE LET blanks == {i \in 2..Len(rep.sheet) : is_empty(rep.sheet[i])}
             end    == IF blanks = {} THEN Len(rep.sheet) ELSE Min(blanks) - 1
         IN  SubSeq(rep.sheet, 2, end)

NamesOf(region) == {region[i].b : i \in DOMAIN region}

\* the non-empty full names of a batch
BatchNames(batch) == {strip(batch[i].name) : i \in DOMAIN batch} \ {<<>>}

\* the values of the last row of the batch with the name
LatestValue(batch, name) ==
    batch[Max({i \in DOMAIN batch : strip(batch[i].name) = name})].value

\* the names of the batch that are not in seen, in the order of their first
\* occurrence
RECURSIVE FreshNames(_, _)
FreshNames(batch, seen) ==
    IF batch = <<>> THEN <<>>
    ELSE LET name == strip(Head(batch).name)
         IN  IF name = <<>> \/ name \in seen
             THEN FreshNames(Tail(batch), seen)
             ELSE <<name>> \o FreshNames(Tail(batch), seen \cup {name})

C23_RowsStayInPlace ==
    [][LET old == DataRegion(report)
           new == DataRegion(report')
       IN  /\ Len(new) >= Len(old)
           /\ \A i \in DOMAIN old :
                 /\ new[i].b = old[i].b
                 /\ old[i].b \notin BatchNames(rows') => new[i] = old[i]
           /\ [k \in 1..(Len(new) - Len(old)) |-> new[Len(old) + k].b]
                 = FreshNames(rows', NamesOf(old))
      ]_vars

C23_Witness ==
    /\ Len(DataRegion(report)) = 2
    /\ DataRegion(report)[1].b = <<"b">>
    /\ DataRegion(report)[1].c = 2
    /\ DataRegion(report)[2].b = <<"a">>
    /\ rows = <<[name |-> <<"b">>, value |-> 2]>>

\* C24: merging the same rows a second time leaves the data rows as the
\* first merge left them: their number, their order and every cell, the
\* index formula included.
C24_MergeIdempotent ==
    [][repeated' => DataRegion(report') = DataRegion(report)]_vars

C24_Witness ==
    /\ repeated
    /\ Len(rows) = 2
    /\ Len(DataRegion(report)) = 2
    /\ rows[1].value # rows[2].value


\* the texts of column B from row first on, for the given number of rows
ColumnB(sheet, first, n) == [i \in 1..n |-> sheet[first + i - 1].b]

LabelTexts(labels) == [i \in DOMAIN labels |-> <<labels[i]>>]

TotalsLabels ==
    {<<BlockType1[i]>> : i \in DOMAIN BlockType1}
    \cup {<<BlockType2[i]>> : i \in DOMAIN BlockType2}
    \cup {<<SummaryMetrics[i]>> : i \in DOMAIN SummaryMetrics}
    \cup {<<SummaryTitle>>}

\* C25: after any number of reopen-and-merge cycles the sheet is the header
\* row, the data rows, exactly one blank separator row, one set of breakdown
\* blocks and one summary block; the blocks of earlier merges do not
\* accumulate and are never among the data rows.
C25_ReportShape ==
    report.exists =>
        LET sheet == report.sheet
            n     == Len(DataRegion(report))
            b1    == Len(BlockType1)
            b2    == Len(BlockType2)
            m     == Len(SummaryMetrics)
        IN  /\ sheet[1] = HeaderCells
            /\ \A i \in 2..(n + 1) :
                  /\ sheet[i].b \notin TotalsLabels
                  /\ sheet[i].rng = <<>>
                  /\ sheet[i].a # 0
            /\ Len(sheet) = (n + 1) + 1 + b1 + 1 + b2 + 1 + 1 + m
            /\ is_empty(sheet[n + 2])
            /\ ColumnB(sheet, n + 3, b1) = LabelTexts(BlockType1)
            /\ is_empty(sheet[n + 3 + b1])
            /\ ColumnB(sheet, n + 4 + b1, b2) = LabelTexts(BlockType2)
            /\ is_empty(sheet[n + 4 + b1 + b2])
            /\ sheet[n + 5 + b1 + b2].b = <<SummaryTitle>>
            /\ ColumnB(sheet, n + 6 + b1 + b2, m) = LabelTexts(SummaryMetrics)
            /\ Cardinality({i \in DOMAIN sheet : is_totals_label(sheet[i].b)}) = 1
            /\ Cardinality({i \in DOMAIN sheet : sheet[i].b = <<SummaryTitle>>}) = 1

C25_Witness ==
    /\ report.exists
    /\ repeated
    /\ Len(rows) = 1
    /\ Len(DataRegion(report)) = 2

\* C26: every range a merge writes (the breakdown formulas, the summary
\* formulas, the auto-filter below its header row) is the data rows of the
\* sheet after the merge: from row 2 to the last data row, never ending
\* before its start.
C26_RangesCoverDataRows ==
    report.exists =>
        LET last_data_row == Len(DataRegion(report)) + 1
        IN  /\ \A i \in DOMAIN report.sheet :
                  report.sheet[i].rng # <<>> =>
                      /\ report.sheet[i].rng = <<2, last_data_row>>
                      /\ report.sheet[i].rng[1] <= report.sheet[i].rng[2]
            /\ report.filter = <<1, last_data_row>>


\* the pairs of a dict, whatever their order
PairsOf(d) == {d[i] : i \in DOMAIN d}

\* the two snapshots have the same fields with the same values
SameContent(x, y) ==
    /\ x.has_info = y.has_info
    /\ PairsOf(x.info) = PairsOf(y.info)
    /\ x.paid = y.paid
    /\ Len(x.appts) = Len(y.appts)
    /\ \A i \in DOMAIN x.appts : PairsOf(x.appts[i]) = PairsOf(y.appts[i])

Hashed == digests # <<>>

\* C27: calculate_patient_hash is deterministic and independent of the
\* insertion order of the fields: two snapshots with the same fields and
\* values have the same digest.
C27_HashIgnoresKeyOrder ==
    (Hashed /\ SameContent(snapshots[1], snapshots[2])) =>
        digests[1] = digests[2]

C27_Witness ==
    /\ Hashed
    /\ SameContent(snapshots[1], snapshots[2])
    /\ snapshots[1].appts # snapshots[2].appts
    /\ snapshots[1].info # <<>>
    /\ ~digests[1].raised

\* the source columns of the tracked fields; the age is computed from BDATE
TrackedInfoKeys == {"LASTNAME", "FILIAL_NAME", "REKLAMA", "BDATE"}

IsReal(value) == value.t \notin {"missing", "null"}

\* C28: two snapshots that differ in the value of a tracked field (the age
\* included) have different digests.
C28_TrackedFieldChangesDigest ==
    (/\ Hashed
     /\ ~digests[1].raised /\ ~digests[2].raised
     /\ snapshots[1].has_info /\ snapshots[2].has_info
     /\ \/ \E k \in TrackedInfoKeys :
              LET vx == dict_get(snapshots[1].info, k, Missing)
                  vy == dict_get(snapshots[2].info, k, Missing)
              IN  IsReal(vx) /\ IsReal(vy) /\ vx # vy
        \/ /\ IsReal(snapshots[1].paid) /\ IsReal(snapshots[2].paid)
           /\ snapshots[1].paid # snapshots[2].paid)
    => digests[1].digest # digests[2].digest

\* C29: calculate_patient_hash never fails: a field whose serialization
\* raises becomes the null token and a digest is still returned.
C29_HashNeverFails ==
    Hashed => ~digests[1].raised /\ ~digests[2].raised

\* C30: a snapshot in which a tracked field is absent or null never has the
\* digest of a snapshot that differs only in holding a real value (the dash,
\* the empty string, 0) in that field.
C30_AbsentDiffersFromReal ==
    (/\ Hashed
     /\ ~digests[1].raised /\ ~digests[2].raised
     /\ snapshots[1].has_info /\ snapshots[2].has_info
     /\ snapshots[1].appts = snapshots[2].appts
     /\ \/ /\ snapshots[1].paid = snapshots[2].paid
           /\ \E k \in TrackedInfoKeys \ {"BDATE"} :
                 /\ ~IsReal(dict_get(snapshots[1].info, k, Missing))
                 /\ IsReal(dict_get(snapshots[2].info, k, Missing))
                 /\ \A j \in TrackedInfoKeys \ {k} :
                       dict_get(snapshots[1].info, j, Missing)
                          = dict_get(snapshots[2].info, j, Missing)
        \/ /\ PairsOf(snapshots[1].info) = PairsOf(snapshots[2].info)
           /\ ~IsReal(snapshots[1].paid)
           /\ IsReal(snapshots[2].paid))
    => digests[1].digest # digests[2].digest

\* the run of one date with the filter <<p>>, p not being in the registry
\* the run loaded (the registry file is written by the save only)
NewInFilterRun(p) ==
    /\ pc \in {"filter", "date", "export", "save"}
    /\ Len(date_range) = 1
    /\ filter_pcodes = <<p>>
    /\ p \notin DOMAIN Stored

\* the data rows of the report with the full name of p
RowsFor(rep, p) ==
    {i \in DOMAIN DataRegion(rep) : DataRegion(rep)[i].b = FullName(p)}

\* the evaluation of p fetches and renders, and from then on the entry and
\* the document stay as that step left them up to the registry file
RegistryAndDocument(p) ==
    /\ (last'.pcode = p /\ last'.outcome = "regen") =>
          /\ known'[p].data_hash = last'.current_hash
          /\ known'[p].data_hash # None
          /\ known'[p].processed_on = Some(date_range[1])
          /\ p \in files'
    /\ (p \in evaluated /\ known[p].data_hash # None) =>
          /\ p \in files'
          /\ IF pc = "save" THEN Stored'[p] = known[p]
                            ELSE known'[p] = known[p]

OneDateAfterTheOther ==
    /\ (InRun /\ InRunNext /\ idx' # idx) =>
          /\ pc = "date"
          /\ idx' = idx + 1
          /\ queue = <<>>
    /\ (pc' = "date" /\ pc # "date") => queue = <<>>
    /\ (Called /\ pc \in {"repeat", "filter", "daily"}) =>
          /\ idx' = idx
          /\ last'.target_date = date_range[idx]

\* C33 as stated: the dates of the run are processed one after another in
\* ascending calendar order, all candidates of a date before any candidate
\* of the next, whatever the order of the dates in the list passed to main.
C33_AsStated ==
    [][/\ OneDateAfterTheOther
       /\ (InRun /\ InRunNext /\ idx' # idx /\ idx >= 1) =>
             date_range[idx] < date_range[idx']
      ]_vars

\* C33 (amended): the dates of the run are processed one after another in
\* the order of the list passed to main, all candidates of a date before any
\* candidate of the next; the order is the ascending calendar order when the
\* list is ascending, as every list built by the command line is.
C33_DatesInListOrder ==
    [][/\ OneDateAfterTheOther
       /\ (InRun /\ InRunNext /\ idx' # idx /\ idx >= 1
             /\ date_range \in DateRanges) =>
             date_range[idx] < date_range[idx']
      ]_vars

C33_Witness ==
    /\ date_range = <<2, 1>>
    /\ idx = 2
    /\ pc = "daily"
    /\ last.outcome = "regen"
    /\ last.target_date = 1
    /\ \E p \in DOMAIN known : known[p].processed_on = Some(2)

\* C34: data_hash is overwritten only after a successful render: a step of a
\* run changes the data_hash of an entry only if it is the evaluation that
\* rendered the patient's document, or the pre-run update that follows such
\* an evaluation; when the render fails the entry keeps its data_hash, in
\* the pre-run check as in the loops of a date.
C34_HashOnlyAfterRender ==
    [][(InRun /\ InRunNext) =>
          \A p \in (DOMAIN known) \cap (DOMAIN known') :
              known'[p].data_hash # known[p].data_hash =>
                  \/ last'.pcode = p /\ last'.outcome = "regen"
                  \/ pc = "pre_update" /\ last.pcode = p /\ last.outcome = "regen"
      ]_vars

\* C35: in a run without filter, a patient of the registry whose document is
\* missing gets it regenerated even when its fingerprint equals the recorded
\* data_hash: when the loops of the run are over, every patient of the
\* registry the run loaded whose recorded data_hash is its fingerprint has
\* its document.  (The registry file is written by the save only, and no
\* document is removed during a run.)
C35_MissingDocumentRegenerated ==
    (pc = "export" /\ filter_pcodes = <<>>) =>
        \A p \in DOMAIN Stored :
            Stored[p].data_hash = Some(calculate_patient_hash(source[p]))
                => p \in files

RowOf(snapshot) == convert_patient_data_to_csv_row(format_patient_data(snapshot))

\* C37: the fingerprint covers everything that is exported: two snapshots
\* whose export rows differ in a column, the age derived from the birth date
\* included, have different fingerprints.
C37_HashCoversExportRow ==
    (/\ Hashed
     /\ ~digests[1].raised /\ ~digests[2].raised
     /\ RowOf(snapshots[1]) # RowOf(snapshots[2]))
    => digests[1].digest # digests[2].digest

\* C38: in a regeneration the document is rendered from the snapshot whose
\* fingerprint is stored in data_hash: after the step that regenerates, the
\* data_hash of the entry is the fingerprint of what the document shows,
\* whatever the clinic wrote in between.
C38_DocumentMatchesHash ==
    [][(pc = "collected" /\ last'.outcome = "regen") =>
          /\ documents'[last'.pcode] # None
          /\ known'[last'.pcode].data_hash =
                Some(calculate_patient_hash(documents'[last'.pcode][1]))
      ]_vars

\* C39: when a step of append_to_management_report raises before the save,
\* the exception is caught, the caller goes on, and the report file is as it
\* was before the merge.
C39_FailedMergeLeavesFile ==
    [][(pc \in {"opened", "merged"} /\ failure' = "merge") =>
          /\ report' = report
          /\ pc' = "idle"
      ]_vars

\* a merge that changed rows of an existing report in memory has raised
C39_Witness ==
    /\ failure = "merge"
    /\ pc = "idle"
    /\ report.exists
    /\ rows # <<>>
    /\ append_to_management_report(report, rows) # report

\* the steps of the merge give the file append_to_management_report gives
MergeStepsAgree ==
    [][(pc = "merged" /\ pc' = "idle" /\ failure' # "merge") =>
          report' = append_to_management_report(report, rows)]_vars

====
